---- MODULE Spec2Model ----
(***************************************************************************)
(* Model of src/layers/icon-layer/icon-layer.js (kepler.gl IconLayer):     *)
(* the memoized column accessors, calculateDataAttribute, formatLayerData  *)
(* and the update triggers built by renderLayer.                           *)
(***************************************************************************)
EXTENDS Integers, Sequences, FiniteSets, TLC

VARIABLES config, editsLeft, dirty, posCache, iconCache, nextId, posServed,
          iconServed, formatted, rendered

vars == <<config, editsLeft, dirty, posCache, iconCache, nextId, posServed,
          iconServed, formatted, rendered>>

(* ------------------------------ bounds --------------------------------- *)

\* configuration edits applied to a layer whose renders are compared
MaxEdits == 3

\* configuration edits applied to a layer whose rebuilds are checked
MaxRebinds == 1

\* length of the filtered-index list handed to formatLayerData
MaxFiltered == 2

(* --------------------------- JavaScript values ------------------------- *)

Num(n) == [t |-> "num", n |-> n, s |-> ""]
Str(s) == [t |-> "str", n |-> 0, s |-> s]
NaN == [t |-> "nan", n |-> 0, s |-> ""]
Infinity == [t |-> "inf", n |-> 0, s |-> ""]
Null == [t |-> "null", n |-> 0, s |-> ""]
Undefined == [t |-> "undefined", n |-> 0, s |-> ""]

\* Number.isFinite: true only of a number that is neither NaN nor infinite;
\* a numeric string is not coerced
NumberIsFinite(v) == v.t = "num"

\* ToBoolean, as `icon && ...` applies it
Truthy(v) ==
    CASE v.t = "num" -> v.n # 0
      [] v.t = "str" -> v.s # ""
      [] v.t = "inf" -> TRUE
      [] v.t \in {"field", "scale"} -> TRUE
      [] OTHER -> FALSE

\* arr.every(Number.isFinite)
EveryIsFinite(arr) == \A k \in 1..Len(arr) : NumberIsFinite(arr[k])

\* a row is an array of cells; allData[index] of an absent index is undefined
Row(cells) == [defined |-> TRUE, cells |-> cells]
UndefinedRow == [defined |-> FALSE, cells |-> <<>>]

\* variant of Field: a negative index counts from the end of the row
FieldFromEnd(row, fieldIdx) ==
    IF fieldIdx \in 0..(Len(row.cells) - 1) THEN row.cells[fieldIdx + 1]
    ELSE IF fieldIdx < 0 /\ Len(row.cells) + fieldIdx >= 0
         THEN row.cells[Len(row.cells) + fieldIdx + 1]
         ELSE Undefined

\* row[fieldIdx]: zero-based, undefined outside the array (also for -1)
Field(row, fieldIdx) ==
    IF fieldIdx \in 0..(Len(row.cells) - 1) THEN row.cells[fieldIdx + 1]
    ELSE Undefined

\* allData[index], zero-based
At(allData, index) ==
    IF index \in 0..(Len(allData) - 1) THEN allData[index + 1]
    ELSE UndefinedRow

(* ------------------------------ inputs --------------------------------- *)

\* ids of the icon catalog (SvgIcons.map(d => d.id))
IconIds == {"pin", "car"}

\* fieldIdx of a column role that is bound to no field
Unbound == -1

\* the rows of the table
RowTable ==
    << Row(<<Num(1), Num(2), Str("pin")>>),
       Row(<<NaN, Num(5), Str("pin")>>),
       Row(<<Num(3), Num(4), Str("unknown-icon")>>),
       Row(<<Num(6), Str("")>>),
       Row(<<Num(0), Infinity, Str("car")>>),
       Row(<<Num(7), Num(0), Null>>),
       Row(<<Str("car"), Str("1"), Num(8)>>),
       Row(<<Num(4), Num(9), Str("car")>>) >>

\* the row sets handed to the layer: the table, its first rows, no row
RowSets == {RowTable, SubSeq(RowTable, 1, 3), <<>>}

\* number of fields of the table
NumFields == Len(RowTable[1].cells)

FieldIdxs == Unbound..(NumFields - 1)

RECURSIVE Ascending(_, _)
\* the strictly ascending sequences over the integers S of length at most n
Ascending(S, n) ==
    IF n = 0 THEN {<<>>}
    ELSE LET shorter == Ascending(S, n - 1)
             longest == {pr \in shorter \X S :
                           /\ Len(pr[1]) = n - 1
                           /\ (pr[1] = <<>> \/ pr[1][Len(pr[1])] < pr[2])}
         IN shorter \cup {Append(pr[1], pr[2]) : pr \in longest}

\* filtered-index lists: the indices of the rows that pass the filters, in
\* row order
FilteredIndexes(allData) == Ascending(0..(Len(allData) - 1), MaxFiltered)

(* ------------------------ column accessors ----------------------------- *)

\* columns of a layer: each role holds the index of the field bound to it
Columns(lat, lng, icon) ==
    [lat |-> [fieldIdx |-> lat], lng |-> [fieldIdx |-> lng],
     icon |-> [fieldIdx |-> icon]]

AllColumns == {Columns(a, b, c) : a \in FieldIdxs, b \in FieldIdxs, c \in FieldIdxs}

\* iconPosAccessor(columns): a new closure over lat and lng; id is the
\* identity of the function object
iconPosAccessor(columns, id) ==
    [id |-> id, lat |-> columns.lat, lng |-> columns.lng]

\* the closure applied to d: [d.data[lng.fieldIdx], d.data[lat.fieldIdx]]
CallPos(getPosition, d) ==
    <<Field(d.data, getPosition.lng.fieldIdx), Field(d.data, getPosition.lat.fieldIdx)>>

\* variant of iconPosResolver: the key leaves lng out
iconPosResolverLatOnly(columns) == ToString(columns.lat.fieldIdx)

\* `${lat.fieldIdx}-${lng.fieldIdx}`
iconPosResolver(columns) ==
    ToString(columns.lat.fieldIdx) \o "-" \o ToString(columns.lng.fieldIdx)

\* iconAccessor(columns): a new closure over icon
iconAccessor(columns, id) == [id |-> id, icon |-> columns.icon]

\* the closure applied to d: d.data[icon.fieldIdx]
CallIcon(getIcon, d) == Field(d.data, getIcon.icon.fieldIdx)

iconResolver(columns) == columns.icon.fieldIdx

(* ------------------------------ memoize -------------------------------- *)

\* the cache of a memoized function: a set of [key, value] entries
CacheHas(cache, key) == \E e \in cache : e.key = key
CacheGet(cache, key) == (CHOOSE e \in cache : e.key = key).value
CacheSet(cache, key, value) ==
    {e \in cache : e.key # key} \cup {[key |-> key, value |-> value]}

\* variant of Memoize: the cache is written and never read
MemoizeNoLookup(cache, key, fresh) ==
    [cache |-> CacheSet(cache, key, fresh), value |-> fresh, hit |-> FALSE]

\* one call of memoize(func, resolver)(columns): key is resolver(columns) and
\* fresh is what func(columns) builds when the key is not cached
Memoize(cache, key, fresh) ==
    IF CacheHas(cache, key)
    THEN [cache |-> cache, value |-> CacheGet(cache, key), hit |-> TRUE]
    ELSE [cache |-> CacheSet(cache, key, fresh), value |-> fresh, hit |-> FALSE]

(* ----------------------- calculateDataAttribute ------------------------ *)

\* variant of KeepPoint: the icon id is not looked up in the catalog
KeepPointAnyIcon(pos, icon) == EveryIsFinite(pos) /\ Truthy(icon)

\* pos.every(Number.isFinite) && icon && IconIds.includes(icon)
KeepPoint(pos, icon) ==
    /\ EveryIsFinite(pos)
    /\ Truthy(icon)
    /\ icon.t = "str" /\ icon.s \in IconIds

\* variant of Push: data.unshift(point)
PushFront(data, point) == <<point>> \o data

\* data.push(point)
Push(data, point) == Append(data, point)

\* variant of Throws: the icon cell is dereferenced, which raises when it is
\* undefined
ThrowsOnMissingCell(getPosition, getIcon, d) ==
    \/ ~d.data.defined
    \/ CallIcon(getIcon, d) = Undefined

\* reading d.data[...] raises a TypeError when d.data is undefined
Throws(getPosition, getIcon, d) == ~d.data.defined

RECURSIVE CalcLoop(_, _, _, _, _, _)
\* the for loop from position i on, data being the points pushed so far;
\* an exception leaves the method without a result
CalcLoop(allData, filteredIndex, getPosition, getIcon, i, data) ==
    IF ~(i < Len(filteredIndex)) THEN [threw |-> FALSE, data |-> data]
    ELSE LET index == filteredIndex[i + 1]
             d == [data |-> At(allData, index)]
         IN IF Throws(getPosition, getIcon, d) THEN [threw |-> TRUE, data |-> <<>>]
            ELSE LET pos == CallPos(getPosition, d)
                     icon == CallIcon(getIcon, d)
                     point == [index |-> index, icon |-> icon,
                               position |-> pos, data |-> d.data]
                 IN CalcLoop(allData, filteredIndex, getPosition, getIcon, i + 1,
                             IF KeepPoint(pos, icon) THEN Push(data, point) ELSE data)

\* calculateDataAttribute(allData, filteredIndex, getPosition) on a layer whose
\* configuration is cfg, whose getIcon cache is cache and whose next function
\* object gets identity id: this.getIcon(this.config.columns), then the loop
calculateDataAttribute(cfg, cache, id, allData, filteredIndex, getPosition) ==
    LET im == Memoize(cache, iconResolver(cfg.columns), iconAccessor(cfg.columns, id))
        loop == CalcLoop(allData, filteredIndex, getPosition, im.value, 0, <<>>)
    IN [iconCache |-> im.cache, getIcon |-> im.value,
        nextId |-> IF im.hit THEN id ELSE id + 1,
        threw |-> loop.threw, data |-> loop.data]

(* --------------------------- configuration ----------------------------- *)

\* a field of the table, as a visual channel holds it
FieldObj(name, tableFieldIndex) == [t |-> "field", n |-> tableFieldIndex, s |-> name]

ChannelFields == {Null, FieldObj("a", 1), FieldObj("b", 2)}
RadiusRanges == {<<0, 50>>, <<10, 100>>}
ColorRanges == {[name |-> "warm", colors |-> <<"#FF0000", "#FFFF00">>],
                [name |-> "cool", colors |-> <<"#0000FF", "#00FFFF">>]}
SizeScales == {"linear", "sqrt"}
ColorScales == {"quantile", "quantize"}
Colors == {<<255, 0, 0>>, <<0, 0, 255>>}

\* the configuration of a new layer whose columns are `columns`
DefaultConfig(columns) ==
    [columns |-> columns,
     colorField |-> Null, colorScale |-> "quantile", colorDomain |-> <<0, 10>>,
     color |-> <<255, 0, 0>>,
     sizeField |-> Null, sizeScale |-> "linear", sizeDomain |-> <<0, 10>>,
     visConfig |-> [radiusRange |-> <<0, 50>>,
                    colorRange |-> [name |-> "warm", colors |-> <<"#FF0000", "#FFFF00">>]]]

\* columns of a new layer: no role bound, lat, lng and icon as
\* findDefaultLayerProps proposes them, or the columns of a saved layer
InitColumns == {Columns(Unbound, Unbound, Unbound), Columns(1, 0, 2), Columns(2, 2, 0)}

\* cfg with one column role bound to another field (or unbound)
ColumnEdits(cfg) ==
    {[cfg EXCEPT !.columns = c] :
        c \in {c \in AllColumns :
                 Cardinality({r \in {"lat", "lng", "icon"} : c[r] # cfg.columns[r]}) = 1}}

\* cfg with another field (or none) bound to the colour or the size channel
ChannelFieldEdits(cfg) ==
    ({[cfg EXCEPT !.colorField = f] : f \in ChannelFields}
     \cup {[cfg EXCEPT !.sizeField = f] : f \in ChannelFields}) \ {cfg}

\* cfg with another scale of a channel, or another constant colour
ChannelScaleEdits(cfg) ==
    ({[cfg EXCEPT !.sizeScale = x] : x \in SizeScales}
     \cup {[cfg EXCEPT !.colorScale = x] : x \in ColorScales}
     \cup {[cfg EXCEPT !.color = x] : x \in Colors}) \ {cfg}

\* cfg with one visConfig setting changed
VisConfigEdits(cfg) ==
    ({[cfg EXCEPT !.visConfig.radiusRange = x] : x \in RadiusRanges}
     \cup {[cfg EXCEPT !.visConfig.colorRange = x] : x \in ColorRanges}) \ {cfg}

(* --------------------------- formatLayerData --------------------------- *)

\* hexToRgb of utils/color-utils, on the palettes' colours
hexToRgb(hex) ==
    CASE hex = "#FF0000" -> <<255, 0, 0>>
      [] hex = "#FFFF00" -> <<255, 255, 0>>
      [] hex = "#0000FF" -> <<0, 0, 255>>
      [] hex = "#00FFFF" -> <<0, 255, 255>>

\* colors.map(hexToRgb)
MapHexToRgb(colors) == [k \in 1..Len(colors) |-> hexToRgb(colors[k])]

\* getVisChannelScale(scale, domain, range) of the base layer: a scale object
getVisChannelScale(scale, domain, range) ==
    [t |-> "scale", scaleType |-> scale, domain |-> domain, range |-> range]

\* getEncodedChannelValue(scale, data, field) of the base layer: the scale
\* applied to the row's value of the field
getEncodedChannelValue(scale, data, field) ==
    LET value == Field(data, field.n - 1)
    IN IF NumberIsFinite(value) /\ 2 * value.n > scale.domain[1] + scale.domain[2]
       THEN scale.range[Len(scale.range)]
       ELSE scale.range[1]

\* variant of ColorScaleOf: the scale is built when sizeField is bound
ColorScaleBySizeField(cfg) ==
    IF Truthy(cfg.sizeField)
    THEN getVisChannelScale(cfg.colorScale, cfg.colorDomain,
                            MapHexToRgb(cfg.visConfig.colorRange.colors))
    ELSE cfg.sizeField

\* cScale: colorField && this.getVisChannelScale(...)
ColorScaleOf(cfg) ==
    IF Truthy(cfg.colorField)
    THEN getVisChannelScale(cfg.colorScale, cfg.colorDomain,
                            MapHexToRgb(cfg.visConfig.colorRange.colors))
    ELSE cfg.colorField

\* rScale: sizeField && this.getVisChannelScale(...)
RadiusScaleOf(cfg) ==
    IF Truthy(cfg.sizeField)
    THEN getVisChannelScale(cfg.sizeScale, cfg.sizeDomain, cfg.visConfig.radiusRange)
    ELSE cfg.sizeField

\* getRadius: rScale ? d => getEncodedChannelValue(rScale, d.data, sizeField) : 1
GetRadiusOf(cfg) ==
    LET rScale == RadiusScaleOf(cfg)
    IN IF Truthy(rScale)
       THEN [kind |-> "function", scale |-> rScale, field |-> cfg.sizeField]
       ELSE [kind |-> "constant", value |-> 1]

\* getColor: cScale ? d => getEncodedChannelValue(cScale, d.data, colorField) : color
GetColorOf(cfg) ==
    LET cScale == ColorScaleOf(cfg)
    IN IF Truthy(cScale)
       THEN [kind |-> "function", scale |-> cScale, field |-> cfg.colorField]
       ELSE [kind |-> "constant", value |-> cfg.color]

\* what the renderer reads of a channel for point d: the constant, or the
\* accessor called on d
ChannelValue(accessor, d) ==
    IF accessor.kind = "constant" THEN accessor.value
    ELSE getEncodedChannelValue(accessor.scale, d.data, accessor.field)

(* ----------------------------- renderLayer ----------------------------- *)

\* variant of UpdateTriggers: the radius trigger holds colorRange for
\* radiusRange
UpdateTriggersRadiusByColorRange(cfg) ==
    [getRadius |-> [sizeField |-> cfg.colorField,
                    radiusRange |-> cfg.visConfig.colorRange,
                    sizeScale |-> cfg.sizeScale],
     getColor |-> [color |-> cfg.color,
                   colorField |-> cfg.colorField,
                   colorRange |-> cfg.visConfig.colorRange,
                   colorScale |-> cfg.colorScale]]

\* updateTriggers of the SvgIconLayer props (getFilterValue comes from the
\* gpuFilter argument and is left out)
UpdateTriggers(cfg) ==
    [getRadius |-> [sizeField |-> cfg.colorField,
                    radiusRange |-> cfg.visConfig.radiusRange,
                    sizeScale |-> cfg.sizeScale],
     getColor |-> [color |-> cfg.color,
                   colorField |-> cfg.colorField,
                   colorRange |-> cfg.visConfig.colorRange,
                   colorScale |-> cfg.colorScale]]

(* ------------------------------ the layer ------------------------------ *)

\* new IconLayer(props): both memoized accessors start with an empty cache;
\* budget is the number of configuration edits the run applies
InitLayer(budget) ==
    /\ config \in {DefaultConfig(c) : c \in InitColumns}
    /\ editsLeft = budget
    /\ dirty = TRUE
    /\ posCache = {}
    /\ iconCache = {}
    /\ nextId = 0
    /\ posServed = {}
    /\ iconServed = {}
    /\ formatted = <<>>
    /\ rendered = <<>>

\* a configuration edit: the layer data of the former configuration is gone
\* and a rebuild is due
Edit(cfg) ==
    /\ editsLeft > 0
    /\ config' = cfg
    /\ editsLeft' = editsLeft - 1
    /\ dirty' = TRUE
    /\ formatted' = <<>>
    /\ UNCHANGED <<posCache, iconCache, nextId, posServed, iconServed, rendered>>

\* the configuration subsystem rebinds one column role
UpdateLayerColumns == \E cfg \in ColumnEdits(config) : Edit(cfg)

\* the configuration subsystem binds another field to a visual channel
UpdateChannelField == \E cfg \in ChannelFieldEdits(config) : Edit(cfg)

\* the configuration subsystem changes a channel's scale or constant colour
UpdateChannelScale == \E cfg \in ChannelScaleEdits(config) : Edit(cfg)

\* the configuration subsystem changes one visConfig setting
UpdateLayerVisConfig == \E cfg \in VisConfigEdits(config) : Edit(cfg)

\* updateData(allData, filteredIndex) of the base layer: it takes
\* this.getPosition(this.config.columns) and hands it to calculateDataAttribute
updateData(allData, filteredIndex) ==
    LET pm == Memoize(posCache, iconPosResolver(config.columns),
                      iconPosAccessor(config.columns, nextId))
        calc == calculateDataAttribute(config, iconCache,
                                       IF pm.hit THEN nextId ELSE nextId + 1,
                                       allData, filteredIndex, pm.value)
    IN [posCache |-> pm.cache, getPosition |-> pm.value, calc |-> calc]

\* formatLayerData(allData, filteredIndex), run when the configuration or the
\* data is seen to have changed: the points come from updateData, then the two
\* channel accessors are built.  An exception of calculateDataAttribute leaves
\* formatLayerData without a result.
FormatLayerData(allData, filteredIndex) ==
    LET updated == updateData(allData, filteredIndex)
        calc == updated.calc
    IN /\ dirty
       /\ dirty' = FALSE
       /\ posCache' = updated.posCache
       /\ posServed' = posServed \cup
                         {[config |-> config, extractor |-> updated.getPosition]}
       /\ iconCache' = calc.iconCache
       /\ iconServed' = iconServed \cup
                          {[config |-> config, extractor |-> calc.getIcon]}
       /\ nextId' = calc.nextId
       /\ formatted' =
            <<[allData |-> allData, filteredIndex |-> filteredIndex,
               config |-> config,
               calc |-> [threw |-> calc.threw, data |-> calc.data],
               layerData |-> IF calc.threw THEN <<>>
                             ELSE <<[data |-> calc.data,
                                     getColor |-> GetColorOf(config),
                                     getRadius |-> GetRadiusOf(config)]>>]>>
       /\ UNCHANGED <<config, editsLeft, rendered>>

\* renderLayer: the descriptor's updateTriggers are built from the
\* configuration; the last two descriptors are kept for comparison
RenderLayer ==
    LET descriptor == [config |-> config, updateTriggers |-> UpdateTriggers(config)]
    IN /\ rendered' = IF Len(rendered) < 2 THEN Append(rendered, descriptor)
                      ELSE <<rendered[2], descriptor>>
       /\ UNCHANGED <<config, editsLeft, dirty, posCache, iconCache, nextId,
                      posServed, iconServed, formatted>>

\* a rebuild on the rows that pass the filters
Format ==
    \E allData \in RowSets : \E filteredIndex \in FilteredIndexes(allData) :
        FormatLayerData(allData, filteredIndex)

(* --------------------------- specifications ---------------------------- *)

Init == InitLayer(MaxRebinds)

\* the data pipeline of one layer: column and channel-field edits, rebuilds
Next == UpdateLayerColumns \/ UpdateChannelField \/ Format

Spec == Init /\ [][Next]_vars

InitRender == InitLayer(MaxEdits)

\* the render descriptor of one layer: channel and visConfig edits, renders
NextRender ==
    UpdateChannelField \/ UpdateChannelScale \/ UpdateLayerVisConfig \/ RenderLayer

SpecRender == InitRender /\ [][NextRender]_vars

(* ------------------------------- claims -------------------------------- *)

\* row[idx] as JavaScript defines it, for the statements below
Cell(row, idx) ==
    IF 0 <= idx /\ idx < Len(row.cells) THEN row.cells[idx + 1] ELSE Undefined

\* the row has a finite lng, a finite lat and a non-null icon id of the catalog
Renderable(row, columns) ==
    /\ Cell(row, columns.lng.fieldIdx).t = "num"
    /\ Cell(row, columns.lat.fieldIdx).t = "num"
    /\ Cell(row, columns.icon.fieldIdx).t \notin {"null", "undefined"}
    /\ Cell(row, columns.icon.fieldIdx).t = "str"
    /\ Cell(row, columns.icon.fieldIdx).s \in IconIds

\* the positions of list at which x stands
PositionsOf(list, x) == {k \in 1..Len(list) : list[k] = x}

\* the `index` values of a point list
IndexesOf(points) == [k \in 1..Len(points) |-> points[k].index]

RECURSIVE IsSubsequence(_, _)
\* a is b with some elements left out
IsSubsequence(a, b) ==
    IF a = <<>> THEN TRUE
    ELSE IF b = <<>> THEN FALSE
    ELSE IF Head(a) = Head(b) THEN IsSubsequence(Tail(a), Tail(b))
    ELSE IsSubsequence(a, Tail(b))

\* C1: calculateDataAttribute returns one point for a filtered index i exactly
\* when row i has a finite lng, a finite lat and a non-null icon id of the
\* catalog, no point for any other row, and each point carries its index, its
\* icon id, the position [lng, lat] and the row itself.
C1_ExactlyRenderableRows ==
    formatted # <<>> =>
        LET f == formatted[1]
            columns == f.config.columns
            out == f.calc.data
        IN /\ ~f.calc.threw
           /\ \A i \in 0..(Len(f.allData) - 1) :
                Cardinality({k \in 1..Len(out) : out[k].index = i}) =
                    IF PositionsOf(f.filteredIndex, i) # {}
                       /\ Renderable(f.allData[i + 1], columns)
                    THEN 1 ELSE 0
           /\ \A k \in 1..Len(out) :
                /\ out[k].index \in 0..(Len(f.allData) - 1)
                /\ LET row == f.allData[out[k].index + 1]
                   IN /\ out[k].data = row
                      /\ out[k].icon = Cell(row, columns.icon.fieldIdx)
                      /\ out[k].position = <<Cell(row, columns.lng.fieldIdx),
                                             Cell(row, columns.lat.fieldIdx)>>

\* a rebuild that kept one row and dropped a row with a non-finite position
\* and a row whose icon id is not in the catalog
C1_Witness ==
    /\ formatted # <<>>
    /\ Len(formatted[1].calc.data) = 1
    /\ \E i, j \in 1..Len(formatted[1].filteredIndex) :
         LET f == formatted[1]
             ri == f.allData[f.filteredIndex[i] + 1]
             rj == f.allData[f.filteredIndex[j] + 1]
         IN /\ Renderable(ri, f.config.columns)
            /\ ~Renderable(rj, f.config.columns)
            /\ f.calc.data[1].index = f.filteredIndex[i]

\* C2: the `index` values of the returned points are a subsequence of
\* filteredIndex: the points stand in the order of the filtered-index list.
C2_OrderPreserved ==
    formatted # <<>> =>
        IsSubsequence(IndexesOf(formatted[1].calc.data), formatted[1].filteredIndex)

\* a rebuild that returned two points
C2_Witness ==
    /\ formatted # <<>>
    /\ Len(formatted[1].calc.data) = 2
    /\ formatted[1].calc.data[1].index < formatted[1].calc.data[2].index

\* C3: on one layer, configurations with the same lat and lng field indices
\* are served the same position extractor, configurations with the same icon
\* field index the same icon extractor (whatever their colour-channel fields),
\* and each cache holds one extractor per resolver key: no extractor is built
\* twice.
C3_SameKeySameExtractor ==
    /\ \A a, b \in posServed :
         (/\ a.config.columns.lat.fieldIdx = b.config.columns.lat.fieldIdx
          /\ a.config.columns.lng.fieldIdx = b.config.columns.lng.fieldIdx)
         => a.extractor = b.extractor
    /\ \A a, b \in iconServed :
         a.config.columns.icon.fieldIdx = b.config.columns.icon.fieldIdx
         => a.extractor = b.extractor
    /\ \A a, b \in posCache : a.key = b.key => a = b
    /\ \A a, b \in iconCache : a.key = b.key => a = b
    /\ nextId = Cardinality(posCache) + Cardinality(iconCache)

\* two configurations that differ only in the colour field were served the
\* same extractors
C3_Witness ==
    /\ \E a, b \in posServed :
         /\ a.config.colorField # b.config.colorField
         /\ a.config = [b.config EXCEPT !.colorField = a.config.colorField]
         /\ a.extractor = b.extractor
    /\ \E a, b \in iconServed :
         /\ a.config.colorField # b.config.colorField
         /\ a.config = [b.config EXCEPT !.colorField = a.config.colorField]
         /\ a.extractor = b.extractor

\* C4: between two renders, the radius update trigger changes when
\* radiusRange changes, and is unchanged when only colorRange changes.
C4_RadiusTriggerFollowsRadiusRange ==
    Len(rendered) = 2 =>
        LET a == rendered[1]
            b == rendered[2]
        IN /\ a.config.visConfig.radiusRange # b.config.visConfig.radiusRange
              => a.updateTriggers.getRadius # b.updateTriggers.getRadius
           /\ a.config = [b.config EXCEPT
                            !.visConfig.colorRange = a.config.visConfig.colorRange]
              => a.updateTriggers.getRadius = b.updateTriggers.getRadius

\* two renders between which radiusRange changed and nothing else did
C4_Witness ==
    /\ Len(rendered) = 2
    /\ rendered[1].config.visConfig.radiusRange # rendered[2].config.visConfig.radiusRange
    /\ rendered[1].config =
         [rendered[2].config EXCEPT
            !.visConfig.radiusRange = rendered[1].config.visConfig.radiusRange]
    /\ rendered[1].updateTriggers.getRadius # rendered[2].updateTriggers.getRadius

\* C5: between two renders whose configurations differ in sizeField and in
\* nothing else, the radius update trigger changes.
C5_RadiusTriggerFollowsSizeField ==
    Len(rendered) = 2 =>
        LET a == rendered[1]
            b == rendered[2]
        IN (/\ a.config.sizeField # b.config.sizeField
            /\ a.config = [b.config EXCEPT !.sizeField = a.config.sizeField])
           => a.updateTriggers.getRadius # b.updateTriggers.getRadius

\* C6: between two renders whose configurations differ in colorField and in
\* nothing else, the radius update trigger is unchanged.
C6_RadiusTriggerIgnoresColorField ==
    Len(rendered) = 2 =>
        LET a == rendered[1]
            b == rendered[2]
        IN (/\ a.config.colorField # b.config.colorField
            /\ a.config = [b.config EXCEPT !.colorField = a.config.colorField])
           => a.updateTriggers.getRadius = b.updateTriggers.getRadius

\* C7: formatLayerData returns the constant 1 as getRadius when no field is
\* bound to the size channel and config.color as getColor when no field is
\* bound to the colour channel: the same value for every point.
C7_ConstantChannelFallback ==
    (formatted # <<>> /\ formatted[1].layerData # <<>>) =>
        LET f == formatted[1]
            layer == f.layerData[1]
        IN /\ f.config.sizeField = Null =>
                /\ layer.getRadius.kind = "constant"
                /\ \A k \in 1..Len(f.allData) :
                     ChannelValue(layer.getRadius, [data |-> f.allData[k]]) = 1
           /\ f.config.colorField = Null =>
                /\ layer.getColor.kind = "constant"
                /\ \A k \in 1..Len(f.allData) :
                     ChannelValue(layer.getColor, [data |-> f.allData[k]]) = f.config.color

\* a rebuild with a field bound to the size channel and none to the colour
\* channel
C7_Witness ==
    /\ formatted # <<>>
    /\ formatted[1].layerData # <<>>
    /\ formatted[1].config.colorField = Null
    /\ formatted[1].config.sizeField # Null
    /\ formatted[1].layerData[1].getColor.kind = "constant"
    /\ formatted[1].layerData[1].getRadius.kind = "function"

\* C8: calculateDataAttribute raises no exception and returns a point list;
\* a row that cannot be rendered is dropped and every renderable filtered row
\* still has its point.
C8_NeverThrows ==
    formatted # <<>> =>
        LET f == formatted[1]
        IN /\ ~f.calc.threw
           /\ f.layerData # <<>>
           /\ \A j \in 1..Len(f.filteredIndex) :
                Renderable(f.allData[f.filteredIndex[j] + 1], f.config.columns)
                => PositionsOf(IndexesOf(f.calc.data), f.filteredIndex[j]) # {}

\* a rebuild in which a row without an icon cell precedes a renderable row,
\* which has its point
C8_Witness ==
    /\ formatted # <<>>
    /\ ~formatted[1].calc.threw
    /\ \E i, j \in 1..Len(formatted[1].filteredIndex) :
         LET f == formatted[1]
             ri == f.allData[f.filteredIndex[i] + 1]
             rj == f.allData[f.filteredIndex[j] + 1]
         IN /\ i < j
            /\ Cell(ri, f.config.columns.icon.fieldIdx) = Undefined
            /\ Renderable(rj, f.config.columns)
            /\ IndexesOf(f.calc.data) = <<f.filteredIndex[j]>>

\* C9: when lat, lng or icon is bound to no field, calculateDataAttribute
\* returns the empty list and raises nothing.
C9_UnboundRoleEmptyOutput ==
    formatted # <<>> =>
        LET f == formatted[1]
        IN (\E r \in {"lat", "lng", "icon"} : f.config.columns[r].fieldIdx = Unbound)
           => /\ ~f.calc.threw
              /\ f.calc.data = <<>>

\* a rebuild with exactly one role unbound over a non-empty filtered list
C9_Witness ==
    /\ formatted # <<>>
    /\ Cardinality({r \in {"lat", "lng", "icon"} :
                      formatted[1].config.columns[r].fieldIdx = Unbound}) = 1
    /\ formatted[1].filteredIndex # <<>>
    /\ formatted[1].calc.data = <<>>

\* the resolver keys of two column configurations are equal only if the field
\* indices the accessor reads are
ResolversDistinguish ==
    \A c1, c2 \in AllColumns :
        /\ iconPosResolver(c1) = iconPosResolver(c2)
           => (c1.lat = c2.lat /\ c1.lng = c2.lng)
        /\ iconResolver(c1) = iconResolver(c2) => c1.icon = c2.icon

\* C10: every extractor the memoized accessors served reads, of every row,
\* the fields of the configuration it was served for, and the resolver keys
\* of two configurations are equal only if their field indices are.
C10_NoStaleExtractor ==
    /\ \A a \in posServed : \A k \in 1..Len(RowTable) :
         CallPos(a.extractor, [data |-> RowTable[k]]) =
             <<Cell(RowTable[k], a.config.columns.lng.fieldIdx),
               Cell(RowTable[k], a.config.columns.lat.fieldIdx)>>
    /\ \A a \in iconServed : \A k \in 1..Len(RowTable) :
         CallIcon(a.extractor, [data |-> RowTable[k]]) =
             Cell(RowTable[k], a.config.columns.icon.fieldIdx)
    /\ ResolversDistinguish

\* getPosition was called for two configurations whose position columns
\* differ, the second after the first was cached
C10_Witness ==
    /\ \E a, b \in posServed :
         /\ a.extractor.id < b.extractor.id
         /\ a.config.columns # b.config.columns
    /\ iconServed # {}

====
